---- MODULE Spec2Model ----
(***************************************************************************)
(* ZwaveMeHelper (zwaveme_assist/helper.py): the lazily built table of     *)
(* vocal commands, the dispatcher do_vocal_commands, clean_command and the *)
(* two API request strategies.                                             *)
(*                                                                         *)
(* A Python str is a sequence of one-character strings, so that slicing,   *)
(* lower() and format() are computed rather than assumed.  A dict is a     *)
(* function; the nullable field _commands is <<>> for None and <<d>> for   *)
(* the dict d.                                                             *)
(***************************************************************************)
EXTENDS Integers, Sequences, FiniteSets, TLC

VARIABLES commands, located, initOutcome, nLocations, lastCall

vars == <<commands, located, initOutcome, nLocations, lastCall>>

(* ------------------------------ bounds -------------------------------- *)

\* rooms in one list-locations response
MaxRooms == 2
\* length of the strings handed to clean_command on its own
MaxLen == 4
\* list-locations requests after which no further one is explored
MaxLocationRequests == 2

(* ------------------------------ strings ------------------------------- *)

QUOTE == "'"

\* str.lower() on the letters the model's strings are made of
LowerChar(c) ==
    CASE c = "W" -> "w"
      [] c = "K" -> "k"
      [] c = "B" -> "b"
      [] c = "L" -> "l"
      [] c = "F" -> "f"
      [] OTHER -> c

RECURSIVE Lower(_)
Lower(s) == IF s = <<>> THEN <<>> ELSE <<LowerChar(Head(s))>> \o Lower(Tail(s))

\* s[:1], s[-1:], s[1:-1] and s[:-1]
FirstSlice(s) == IF Len(s) = 0 THEN <<>> ELSE <<s[1]>>
LastSlice(s) == IF Len(s) = 0 THEN <<>> ELSE <<s[Len(s)]>>
InnerSlice(s) == SubSeq(s, 2, Len(s) - 1)
DropLast(s) == SubSeq(s, 1, Len(s) - 1)

RECURSIVE StringsUpTo(_, _)
StringsUpTo(alphabet, n) ==
    IF n = 0 THEN {<<>>}
    ELSE LET shorter == StringsUpTo(alphabet, n - 1)
         IN  shorter \cup {Append(s, c) : s \in shorter, c \in alphabet}

RECURSIVE SeqsUpTo(_, _)
SeqsUpTo(S, n) ==
    IF n = 0 THEN {<<>>}
    ELSE LET shorter == SeqsUpTo(S, n - 1)
         IN  shorter \cup {Append(s, x) : s \in shorter, x \in S}

(* ----------------------------- constants ------------------------------ *)

BASE_ORDER == <<"W", "a", "v", "e">>
TURN_ON == <<"o", "n">>
TURN_OFF == <<"o", "f", "f">>
_SWITCHES == "devices_switchBinary"

None == <<>>
Some(d) == <<d>>
EmptyDict == <<>>

\* d[k] = v on a dict
Put(d, k, v) == [x \in (DOMAIN d) \cup {k} |-> IF x = k THEN v ELSE d[x]]

(* ------------------------ what the server sends ----------------------- *)

Titles == {<<"K">>, <<"B">>}

\* the switch devices the server knows, in the order it lists them
ServerDevices ==
    << [deviceId |-> "ZWay_1", deviceName |-> <<"L">>],
       [deviceId |-> "ZWay_2", deviceName |-> <<"l">>] >>

Devices == {ServerDevices[i] : i \in DOMAIN ServerDevices}

\* a namespace group that is not the switch group
SensorGroup ==
    [id |-> "devices_sensorBinary",
     params |-> <<[deviceId |-> "ZWay_9", deviceName |-> <<"F">>]>>]

\* the params array of a switch group lists each of its devices once, in the
\* server's order
RECURSIVE Listed(_, _)
Listed(S, i) ==
    IF i > Len(ServerDevices) THEN <<>>
    ELSE (IF i \in S THEN <<ServerDevices[i]>> ELSE <<>>) \o Listed(S, i + 1)

SwitchLists == {Listed(S, 1) : S \in SUBSET DOMAIN ServerDevices}

SwitchGroups == {[id |-> _SWITCHES, params |-> p] : p \in SwitchLists}

Namespaces == {<<SensorGroup, g>> : g \in SwitchGroups}

RawLocations == {[title |-> t, namespaces |-> ns] : t \in Titles, ns \in Namespaces}

\* a list-locations body: JSON with a "data" array, or a body that does not parse
Bodies ==
    {[valid |-> TRUE, data |-> rooms] : rooms \in SeqsUpTo(RawLocations, MaxRooms)}
    \cup {[valid |-> FALSE, data |-> <<>>]}

Statuses == {200, 304, 404}

\* requests.Response.raise_for_status raises HTTPError on 4xx and 5xx only
RaisesForStatus(status) == status >= 400 /\ status < 600

\* the server answers the requests that are made: a body is read only when the status
\* does not raise, a send-action status only when the phrase is in the table
BodiesFor(status) == IF RaisesForStatus(status) THEN {[valid |-> FALSE, data |-> <<>>]} ELSE Bodies

(* ---------------------------- domain model ---------------------------- *)

\* ZAutomationLocation.name
LocationName(room) == room.title

\* ZAutomationDevice.name and .api_id
DeviceName(device) == device.deviceName
ApiId(device) == device.deviceId

RECURSIVE Flatten(_)
Flatten(groups) ==
    IF groups = <<>> THEN <<>> ELSE Head(groups).params \o Flatten(Tail(groups))

\* ZAutomationDevice(raw_switch)
ZAutomationDevice(raw) ==
    [class |-> "ZAutomationDevice", deviceId |-> raw.deviceId, deviceName |-> raw.deviceName]

RECURSIVE MapDevices(_)
MapDevices(raws) ==
    IF raws = <<>> THEN <<>> ELSE <<ZAutomationDevice(Head(raws))>> \o MapDevices(Tail(raws))

\* switches without the filter on the group id
Switches_Unfiltered(room) == MapDevices(Flatten(room.namespaces))

\* ZAutomationLocation.switches
Switches(room) ==
    MapDevices(Flatten(SelectSeq(room.namespaces, LAMBDA g : g.id = _SWITCHES)))

\* isinstance(x, ZwaveMeHelper.ZAutomationDevice)
IsDevice(x) == x.class = "ZAutomationDevice"

(* ------------------------------ requests ------------------------------ *)

LocationsRequest(status) ==
    [url |-> "/ZAutomation/api/v1/locations", device |-> "", action |-> <<>>, status |-> status]

CommandRequest(id, action, status) ==
    [url |-> "/ZAutomation/api/v1/devices/{}/command/{}", device |-> id, action |-> action,
     status |-> status]

\* APIListLocationStrategy.apply: the request, then raise_for_status, then the parse
ListLocationsApply(status, body) ==
    IF RaisesForStatus(status)
    THEN [result |-> "HTTPError", rooms |-> <<>>, reqs |-> <<LocationsRequest(status)>>]
    ELSE IF ~body.valid
    THEN [result |-> "ParseError", rooms |-> <<>>, reqs |-> <<LocationsRequest(status)>>]
    ELSE [result |-> "ok", rooms |-> body.data, reqs |-> <<LocationsRequest(status)>>]

\* the parameter list of a send-action call: None, or [param[0], param[1]]
NoParam == [none |-> TRUE, obj |-> [class |-> "NoneType", deviceId |-> "", deviceName |-> <<>>],
            action |-> <<>>]
Param(obj, action) == [none |-> FALSE, obj |-> obj, action |-> action]

\* APIDeviceActionStrategy.apply
DeviceActionApply(param, status) ==
    IF ~param.none
    THEN IF IsDevice(param.obj)
         THEN [result |-> IF RaisesForStatus(status) THEN "HTTPError" ELSE "None",
               reqs |-> <<CommandRequest(ApiId(param.obj), param.action, status)>>]
         ELSE [result |-> "logged: Wrong param provided", reqs |-> <<>>]
    ELSE [result |-> "logged: No param provided", reqs |-> <<>>]

(* --------------------------- command table ---------------------------- *)

ac == <<TURN_ON, TURN_OFF, TURN_OFF>>
ac_voc == <<TURN_ON, TURN_OFF, DropLast(TURN_OFF)>>

\* "{!s} {!s} {!s} in {!s}".format(BASE_ORDER, ac_voc[idx], device.name, room).lower()
Command(idx, deviceName, roomName) ==
    Lower(BASE_ORDER \o <<" ">> \o ac_voc[idx] \o <<" ">> \o deviceName
          \o <<" ", "i", "n", " ">> \o roomName)

\* action_map[name] = switches on an insertion-ordered dict, kept as a sequence
RECURSIVE Replace(_, _)
Replace(amap, entry) ==
    IF amap = <<>> THEN <<>>
    ELSE <<IF Head(amap).name = entry.name THEN entry ELSE Head(amap)>>
         \o Replace(Tail(amap), entry)

MapSet(amap, entry) ==
    IF \E i \in 1..Len(amap) : amap[i].name = entry.name
    THEN Replace(amap, entry)
    ELSE Append(amap, entry)

\* the first loop of __init_commands__
RECURSIVE ActionMap(_, _)
ActionMap(rooms, amap) ==
    IF rooms = <<>> THEN amap
    ELSE ActionMap(Tail(rooms),
                   MapSet(amap, [name |-> LocationName(Head(rooms)),
                                 switches |-> Switches(Head(rooms))]))

\* the loops of __init_commands__ that fill self._commands
RECURSIVE FillDevices(_, _, _, _)
FillDevices(d, idx, room, devices) ==
    IF devices = <<>> THEN d
    ELSE FillDevices(Put(d, Command(idx, DeviceName(Head(devices)), room),
                         [strategy |-> "APIDeviceActionStrategy", device |-> Head(devices),
                          action |-> ac[idx]]),
                     idx, room, Tail(devices))

RECURSIVE FillRooms(_, _, _)
FillRooms(d, idx, amap) ==
    IF amap = <<>> THEN d
    ELSE FillRooms(FillDevices(d, idx, Head(amap).name, Head(amap).switches), idx, Tail(amap))

RECURSIVE FillActions(_, _, _)
FillActions(d, idx, amap) ==
    IF idx > Len(ac) THEN d
    ELSE FillActions(FillRooms(d, idx, amap), idx + 1, amap)

\* self._commands once __init_commands__ has run to its end on these rooms
InitCommandsTable(rooms) == FillActions(EmptyDict, 1, ActionMap(rooms, <<>>))

\* the dict assigned only after the rooms have been fetched
InitCommandsRaised_Unassigned == None

\* self._commands when the list-locations call of line 70 raises: line 68 has run
InitCommandsRaised == Some(EmptyDict)

\* the guard written as "if not self._commands"
NeedsInit_Falsy(c) == c = None \/ c = Some(EmptyDict)

\* the guard of the lazy build
NeedsInit(c) == c = None

\* the test on the leading quote alone
CleanCommand_LeadingOnly(command) ==
    IF FirstSlice(command) = <<QUOTE>> THEN InnerSlice(command) ELSE command

\* ZwaveMeHelper.clean_command
CleanCommand(command) ==
    IF FirstSlice(command) = <<QUOTE>> /\ LastSlice(command) = <<QUOTE>>
    THEN InnerSlice(command)
    ELSE command

\* the lookup without the KeyError handler
Dispatch_NoHandler(d, order, status) ==
    LET cleaned_order == CleanCommand(order)
    IN  IF cleaned_order \in DOMAIN d
        THEN LET todo == d[cleaned_order]
                 sent == DeviceActionApply(Param(todo.device, todo.action), status)
             IN  [result |-> IF sent.result = "None" THEN "True" ELSE sent.result,
                  reqs |-> sent.reqs]
        ELSE [result |-> "KeyError", reqs |-> <<>>]

\* the lookup on the order as given, not cleaned
Dispatch_Uncleaned(d, order, status) ==
    IF order \in DOMAIN d
    THEN LET todo == d[order]
             sent == DeviceActionApply(Param(todo.device, todo.action), status)
         IN  [result |-> IF sent.result = "None" THEN "True" ELSE sent.result,
              reqs |-> sent.reqs]
    ELSE [result |-> "False", reqs |-> <<>>]

\* the handler written as "except Exception"
Dispatch_CatchAll(d, order, status) ==
    LET cleaned_order == CleanCommand(order)
    IN  IF cleaned_order \in DOMAIN d
        THEN LET todo == d[cleaned_order]
                 sent == DeviceActionApply(Param(todo.device, todo.action), status)
             IN  [result |-> IF sent.result = "None" THEN "True" ELSE "False",
                  reqs |-> sent.reqs]
        ELSE [result |-> "False", reqs |-> <<>>]

\* the try block of do_vocal_commands: lookup, apply, and the KeyError handler
Dispatch(d, order, status) ==
    LET cleaned_order == CleanCommand(order)
    IN  IF cleaned_order \in DOMAIN d
        THEN LET todo == d[cleaned_order]
                 sent == DeviceActionApply(Param(todo.device, todo.action), status)
             IN  [result |-> IF sent.result = "None" THEN "True" ELSE sent.result,
                  reqs |-> sent.reqs]
        ELSE [result |-> "False", reqs |-> <<>>]

(* --------------------------- the helper's calls ----------------------- *)

\* what the last call was given, the _commands it found on entry, and what it did
Call(op, before, order, arg, result, keys, reqs) ==
    [op |-> op, before |-> before, order |-> order, cleaned |-> CleanCommand(order),
     arg |-> arg, result |-> result, keys |-> keys, reqs |-> reqs]

\* ZwaveMeHelper.__init__: self._commands = None
Init ==
    /\ commands = None
    /\ located = <<>>
    /\ initOutcome = "none"
    /\ nLocations = 0
    /\ lastCall = Call("none", None, <<>>, NoParam, "none", {}, <<>>)

\* the phrases a caller may say: every phrase some response can generate, the same
\* between quotes, and phrases that no table holds
Phrases == {Command(idx, d.deviceName, t) : idx \in 1..Len(ac), d \in Devices, t \in Titles}
Orders ==
    Phrases
    \cup {<<QUOTE>> \o p \o <<QUOTE>> : p \in Phrases}
    \cup {<<QUOTE>>, <<QUOTE>> \o Command(1, <<"L">>, <<"K">>),
          BASE_ORDER \o <<" ">> \o TURN_ON \o <<" ", "L", " ", "i", "n", " ", "K">>}

SendStatuses(d, order) == IF CleanCommand(order) \in DOMAIN d THEN Statuses ELSE {200}

\* __init_commands__ as called by the lazy guard: the new _commands and what it did
InitCommands(status, body) ==
    LET listed == ListLocationsApply(status, body)
    IN  IF listed.result = "ok"
        THEN [result |-> "ok", commands |-> Some(InitCommandsTable(listed.rooms)),
              rooms |-> listed.rooms, reqs |-> listed.reqs]
        ELSE [result |-> listed.result, commands |-> InitCommandsRaised,
              rooms |-> <<>>, reqs |-> listed.reqs]

\* get_vocal_commands()
GetVocalCommands ==
    IF NeedsInit(commands)
    THEN /\ nLocations < MaxLocationRequests
         /\ \E status \in Statuses : \E body \in BodiesFor(status) :
              LET built == InitCommands(status, body)
              IN  /\ commands' = built.commands
                  /\ located' = built.rooms
                  /\ initOutcome' = built.result
                  /\ nLocations' = nLocations + 1
                  /\ lastCall' =
                       IF built.result = "ok"
                       THEN Call("get_vocal_commands", commands, <<>>, NoParam, "keys",
                                 DOMAIN built.commands[1], built.reqs)
                       ELSE Call("get_vocal_commands", commands, <<>>, NoParam,
                                 built.result, {}, built.reqs)
    ELSE /\ lastCall' = Call("get_vocal_commands", commands, <<>>, NoParam, "keys",
                             DOMAIN commands[1], <<>>)
         /\ UNCHANGED <<commands, located, initOutcome, nLocations>>

\* do_vocal_commands(order)
DoVocalCommands ==
    \E order \in Orders :
        IF NeedsInit(commands)
        THEN /\ nLocations < MaxLocationRequests
             /\ \E status \in Statuses : \E body \in BodiesFor(status) :
                  LET built == InitCommands(status, body)
                  IN  /\ commands' = built.commands
                      /\ located' = built.rooms
                      /\ initOutcome' = built.result
                      /\ nLocations' = nLocations + 1
                      /\ IF built.result = "ok"
                         THEN \E sendStatus \in SendStatuses(built.commands[1], order) :
                                LET done == Dispatch(built.commands[1], order, sendStatus)
                                IN  lastCall' = Call("do_vocal_commands", commands, order,
                                                     NoParam, done.result, {},
                                                     built.reqs \o done.reqs)
                         ELSE lastCall' = Call("do_vocal_commands", commands, order, NoParam,
                                               built.result, {}, built.reqs)
        ELSE \E sendStatus \in SendStatuses(commands[1], order) :
             LET done == Dispatch(commands[1], order, sendStatus)
             IN  /\ lastCall' = Call("do_vocal_commands", commands, order, NoParam,
                                     done.result, {}, done.reqs)
                 /\ UNCHANGED <<commands, located, initOutcome, nLocations>>

Next == GetVocalCommands \/ DoVocalCommands

Spec == Init /\ [][Next]_vars

(* ------------- the calls that do not touch the helper's table --------- *)

CleanAlphabet == {QUOTE, "a", " "}

\* ZwaveMeHelper.clean_command(command), called on its own as main() does
CleanCall ==
    \E command \in StringsUpTo(CleanAlphabet, MaxLen) :
        /\ lastCall' = Call("clean_command", commands, command, NoParam, "str", {}, <<>>)
        /\ UNCHANGED <<commands, located, initOutcome, nLocations>>

\* objects that are no ZAutomationDevice
OtherObjects ==
    { [class |-> "ZAutomationLocation", deviceId |-> "", deviceName |-> <<>>],
      [class |-> "str", deviceId |-> "", deviceName |-> <<>>] }

ApplyActions == {TURN_ON, TURN_OFF, DropLast(TURN_OFF), <<"t", "o", "g", "g", "l", "e">>}

ApplyParams ==
    {NoParam}
    \cup {Param(obj, action) :
            obj \in {ZAutomationDevice(d) : d \in Devices} \cup OtherObjects,
            action \in ApplyActions}

ApplyStatuses(param) == IF ~param.none /\ IsDevice(param.obj) THEN Statuses ELSE {200}

\* APIDeviceActionStrategy(credentials).apply(param), called on its own
ApplyCall ==
    \E param \in ApplyParams : \E status \in ApplyStatuses(param) :
        LET sent == DeviceActionApply(param, status)
        IN  /\ lastCall' = Call("apply", commands, <<>>, param, sent.result, {}, sent.reqs)
            /\ UNCHANGED <<commands, located, initOutcome, nLocations>>

NextCalls == CleanCall \/ ApplyCall

SpecCalls == Init /\ [][NextCalls]_vars

(* ============================== claims ================================ *)

\* the words of the claims, written out rather than taken from the code
SaidOn == <<"o", "n">>
SaidOff == <<"o", "f", "f">>
SaidOf == <<"o", "f">>

\* lower("wave {word} {name} in {title}")
Said(word, name, title) ==
    Lower(<<"w", "a", "v", "e", " ">> \o word \o <<" ">> \o name
          \o <<" ", "i", "n", " ">> \o title)

Quoted(p) == <<QUOTE>> \o p \o <<QUOTE>>

\* the switch devices of a room of the response, read off the wire format
SwitchDevicesOf(room) ==
    UNION { { [class |-> "ZAutomationDevice", deviceId |-> g.params[k].deviceId,
               deviceName |-> g.params[k].deviceName] : k \in DOMAIN g.params } :
            g \in { room.namespaces[n] : n \in
                      { m \in DOMAIN room.namespaces :
                          room.namespaces[m].id = "devices_switchBinary" } } }

Rooms == {located[i] : i \in DOMAIN located}

Built == commands # None
Table == commands[1]
WasBuilt == lastCall.before # None

IsGet == lastCall.op = "get_vocal_commands"
IsDo == lastCall.op = "do_vocal_commands"

Failing(status) == status >= 400 /\ status <= 599
Reqs == {lastCall.reqs[i] : i \in DOMAIN lastCall.reqs}
CommandReqs == SelectSeq(lastCall.reqs, LAMBDA r : r.url # "/ZAutomation/api/v1/locations")
LocationReqs == SelectSeq(lastCall.reqs, LAMBDA r : r.url = "/ZAutomation/api/v1/locations")

\* exactly one send-action request, for this device and this action
SentOnce(device, action) ==
    /\ Len(CommandReqs) = 1
    /\ CommandReqs[1].device = device.deviceId
    /\ CommandReqs[1].action = action

(* C1: the table is built at most once: at most one list-locations request is     *)
(* ever issued, by the call that finds _commands None; a call that finds the      *)
(* table assigned issues none and leaves the table exactly as it found it, and    *)
(* after any call the table is assigned.                                          *)
C1_BuiltAtMostOnce ==
    /\ nLocations <= 1
    /\ (IsGet \/ IsDo) =>
         /\ Built
         /\ nLocations = 1
         /\ WasBuilt => (commands = lastCall.before /\ Len(LocationReqs) = 0)
         /\ ~WasBuilt => Len(LocationReqs) = 1

C1_Witness ==
    /\ IsDo /\ WasBuilt /\ lastCall.result = "True"
    /\ DOMAIN Table # {}
    /\ nLocations = 1

\* the (room, device) pairs of the response that generate phrase p for word W
Generating(W, p) ==
    { <<i, D>> \in UNION { {<<j, E>> : E \in SwitchDevicesOf(located[j])} : j \in DOMAIN located } :
        Said(W, D.deviceName, located[i].title) = p }

(* C2: after a successful build, for every room R of the response and every       *)
(* switch device D of R, lower("wave on D.name in R.title") is a key of the table *)
(* and maps to device D with action "on".  Stated for the pairs whose phrase no   *)
(* other pair of the response generates, so that the phrase has one device to map *)
(* to and the last-write-wins overwrite of equal phrases plays no part.           *)
C2_OnPhraseForEverySwitch ==
    initOutcome = "ok" =>
        \A i \in DOMAIN located : \A D \in SwitchDevicesOf(located[i]) :
            LET p == Said(SaidOn, D.deviceName, located[i].title)
            IN  Generating(SaidOn, p) = {<<i, D>>} =>
                    /\ p \in DOMAIN Table
                    /\ Table[p].device = D
                    /\ Table[p].action = SaidOn

(* C3: after a successful build, for every room R and switch device D of R, both  *)
(* lower("wave off D.name in R.title") and lower("wave of D.name in R.title")      *)
(* are keys mapped to device D with action "off", and executing either issues     *)
(* exactly one send-action request, for D with "off".  Stated, as C2, for the     *)
(* pairs whose phrase no other pair of the response generates.                    *)
C3_OffAndAliasForEverySwitch ==
    initOutcome = "ok" =>
        \A i \in DOMAIN located : \A D \in SwitchDevicesOf(located[i]) :
            \A W \in {SaidOff, SaidOf} :
                LET p == Said(W, D.deviceName, located[i].title)
                IN  Generating(W, p) = {<<i, D>>} =>
                        /\ p \in DOMAIN Table
                        /\ Table[p].device = D
                        /\ Table[p].action = SaidOff
                        /\ (IsDo /\ lastCall.order = p) => SentOnce(D, SaidOff)

(* C4 as stated: from any reachable state, do_vocal_commands on a phrase whose    *)
(* normalized form is not in the table returns False, raises nothing and makes no *)
(* network call.                                                                  *)
C4_MissFromAnyState ==
    (IsDo /\ lastCall.cleaned \notin DOMAIN Table) =>
        (lastCall.result = "False" /\ lastCall.reqs = <<>>)

(* C4 amended: do_vocal_commands called when the table is already assigned, on a  *)
(* phrase whose normalized form is not in the table, returns False, raises        *)
(* nothing and makes no network call.                                             *)
C4_MissWhenBuilt ==
    (IsDo /\ WasBuilt /\ lastCall.cleaned \notin DOMAIN Table) =>
        (lastCall.result = "False" /\ lastCall.reqs = <<>>)

C4_Witness ==
    /\ IsDo /\ WasBuilt
    /\ DOMAIN Table # {}
    /\ lastCall.cleaned \notin DOMAIN Table
    /\ lastCall.result = "False"

(* C5 as stated: for every key p of the built table, stored with device d and     *)
(* action a, do_vocal_commands(p) and do_vocal_commands("'" + p + "'") return     *)
(* True and issue exactly one send-action request, for d.api_id with a, nothing   *)
(* else being sent and the table staying as it was.                               *)
C5_HitReturnsTrue ==
    (IsDo /\ WasBuilt) =>
        \A p \in DOMAIN lastCall.before[1] :
            lastCall.order \in {p, Quoted(p)} =>
                /\ lastCall.result = "True"
                /\ Len(lastCall.reqs) = 1
                /\ SentOnce(lastCall.before[1][p].device, lastCall.before[1][p].action)
                /\ commands = lastCall.before

(* C5 amended: for every key p of the built table, stored with device d and       *)
(* action a, do_vocal_commands(p) and do_vocal_commands("'" + p + "'") issue      *)
(* exactly one request, the send-action request for d.api_id with a; they return  *)
(* True unless that request is answered with a 4xx or 5xx status, in which case   *)
(* the HTTP error is raised; the table stays as it was.                           *)
C5_HitSendsOnce ==
    (IsDo /\ WasBuilt) =>
        \A p \in DOMAIN lastCall.before[1] :
            lastCall.order \in {p, Quoted(p)} =>
                /\ Len(lastCall.reqs) = 1
                /\ SentOnce(lastCall.before[1][p].device, lastCall.before[1][p].action)
                /\ lastCall.result = IF Failing(lastCall.reqs[1].status) THEN "HTTPError"
                                                                          ELSE "True"
                /\ commands = lastCall.before

C5_Witness ==
    /\ IsDo /\ WasBuilt
    /\ \E p \in DOMAIN Table : lastCall.order = Quoted(p)
    /\ lastCall.result = "True"
    /\ Len(lastCall.reqs) = 1

(* C6 as stated: clean_command removes exactly one leading and one trailing quote *)
(* when s starts and ends with a quote and returns s unchanged otherwise; the     *)
(* result's length is len(s) or len(s) - 2.                                       *)
C6_StripsOneLayer ==
    lastCall.op = "clean_command" =>
        LET s == lastCall.order
            r == lastCall.cleaned
            enclosed == Len(s) > 0 /\ s[1] = QUOTE /\ s[Len(s)] = QUOTE
        IN  /\ enclosed => s = Quoted(r)
            /\ ~enclosed => r = s
            /\ Len(r) \in {Len(s), Len(s) - 2}

(* C6 amended: clean_command removes exactly one leading and one trailing quote   *)
(* when s has at least two characters and starts and ends with a quote; for the   *)
(* one-character string "'" it returns the empty string; it returns s unchanged   *)
(* in every other case, so the result's length is len(s), len(s) - 2, or, for     *)
(* "'" alone, 0.                                                                  *)
C6_StripsOneLayerOfTwo ==
    lastCall.op = "clean_command" =>
        LET s == lastCall.order
            r == lastCall.cleaned
            enclosed == Len(s) > 0 /\ s[1] = QUOTE /\ s[Len(s)] = QUOTE
        IN  /\ (enclosed /\ Len(s) >= 2) => (s = Quoted(r) /\ Len(r) = Len(s) - 2)
            /\ s = <<QUOTE>> => r = <<>>
            /\ ~enclosed => r = s

C6_Witness ==
    /\ lastCall.op = "clean_command"
    /\ lastCall.order = <<QUOTE, QUOTE, "a", QUOTE>>
    /\ lastCall.cleaned = <<QUOTE, "a">>

(* C7: apply([device, action]) is rejected and issues no HTTP request whenever    *)
(* device is not a Device instance or action is not "on" or "off"; a request is   *)
(* issued only for a Device instance with action "on" or "off".                   *)
C7_InvalidArgumentRejected ==
    lastCall.op = "apply" =>
        LET valid == /\ ~lastCall.arg.none
                     /\ lastCall.arg.obj.class = "ZAutomationDevice"
                     /\ lastCall.arg.action \in {SaidOn, SaidOff}
        IN  /\ ~valid => (lastCall.reqs = <<>> /\ lastCall.result \notin {"None", "HTTPError"})
            /\ lastCall.reqs # <<>> => valid

C9_OnlyGeneratedPhrases ==
    Built =>
        /\ \A key \in DOMAIN Table :
             /\ \E R \in Rooms : \E D \in SwitchDevicesOf(R) : \E W \in {SaidOn, SaidOff, SaidOf} :
                    /\ key = Said(W, D.deviceName, R.title)
                    /\ Table[key].device = D
             /\ \A R \in Rooms : \A D \in SwitchDevicesOf(R) : \A W \in {SaidOn, SaidOff, SaidOf} :
                    key = Said(W, D.deviceName, R.title) =>
                        Table[key].action = IF W = SaidOn THEN SaidOn ELSE SaidOff
        /\ (Len(located) = 1 /\ Cardinality(SwitchDevicesOf(located[1])) = 1) =>
             Cardinality(DOMAIN Table) = 3

C9_Witness ==
    /\ Built
    /\ Len(located) = 1
    /\ Cardinality(SwitchDevicesOf(located[1])) = 1
    /\ Cardinality(DOMAIN Table) = 3

(* C10: when the list-locations request of the lazy build fails, the table is     *)
(* left assigned and empty; every later get_vocal_commands returns no phrases,    *)
(* every later do_vocal_commands returns False, and no list-locations request is  *)
(* issued again.                                                                  *)
C10_FailedBuildIsFinal ==
    initOutcome \in {"HTTPError", "ParseError"} =>
        /\ commands = <<EmptyDict>>
        /\ nLocations = 1
        /\ WasBuilt =>
             /\ lastCall.reqs = <<>>
             /\ IsGet => (lastCall.result = "keys" /\ lastCall.keys = {})
             /\ IsDo => lastCall.result = "False"

C10_Witness ==
    /\ initOutcome = "HTTPError"
    /\ IsDo /\ WasBuilt
    /\ lastCall.result = "False"

====
